---- MODULE Spec2Model ----
(***************************************************************************)
(* Model of opcua/ua/ua_binary.py: the OPC UA binary codec.                *)
(*                                                                         *)
(* Bytes are sequences of 0..255.  A value that Python can hold as None,   *)
(* an int, text, raw bytes, a list or an object is a tagged record         *)
(* [t |-> <kind>, ...], so that values of different kinds compare unequal. *)
(* A decoder works on a cursor (data, pos) and returns [err, val, pos]:    *)
(* the value read and the cursor position after it, or err when the        *)
(* Python code raises.  Integers of the model stay below 2^31, so an       *)
(* unsigned 32-bit field is exercised on the lower half of its range.      *)
(***************************************************************************)
EXTENDS Integers, Sequences, FiniteSets, TLC

VARIABLES op, pre, arg, wire, out

vars == <<op, pre, arg, wire, out>>

(* ------------------------------------------------------------------ *)
(* Bounds of the model                                                 *)
(* ------------------------------------------------------------------ *)

\* longest list / array value drawn as an input
MaxLen == 2

\* longest flat sequence handed to reshape
MaxFlat == 6

\* most dimensions, and largest extent of one dimension, of a shape
MaxRank == 3
MaxExtent == 3

(* ------------------------------------------------------------------ *)
(* Values                                                              *)
(* ------------------------------------------------------------------ *)

None == [t |-> "None"]
IntV(n) == [t |-> "int", v |-> n]
StrV(s) == [t |-> "str", s |-> s]
BytesV(b) == [t |-> "bytes", s |-> b]
ListV(l) == [t |-> "list", l |-> l]

Ok(val, pos) == [err |-> FALSE, val |-> val, pos |-> pos]
Raise(pos) == [err |-> TRUE, val |-> None, pos |-> pos]

\* struct.pack("<" + unsigned format of width w, n), 0 <= n < 256^w
RECURSIVE PackLE(_, _)
PackLE(n, w) == IF w = 0 THEN <<>> ELSE <<n % 256>> \o PackLE(n \div 256, w - 1)

\* struct.pack(">" + unsigned format of width w, n)
RECURSIVE PackBE(_, _)
PackBE(n, w) == IF w = 0 THEN <<>> ELSE PackBE(n \div 256, w - 1) \o <<n % 256>>

RECURSIVE UnpackLE(_)
UnpackLE(bs) == IF bs = <<>> THEN 0 ELSE Head(bs) + 256 * UnpackLE(Tail(bs))

RECURSIVE UnpackBE(_)
UnpackBE(bs) == IF bs = <<>> THEN 0
                ELSE bs[Len(bs)] + 256 * UnpackBE(SubSeq(bs, 1, Len(bs) - 1))

\* two's complement of a byte string: every byte inverted (the value -n-1)
Invert(bs) == [i \in 1..Len(bs) |-> 255 - bs[i]]

\* Buffer.read(n): exactly n bytes from the cursor, or it raises
CanRead(data, pos, n) == n >= 0 /\ pos + n <= Len(data)
ReadBytes(data, pos, n) == SubSeq(data, pos + 1, pos + n)

RECURSIVE Concat(_)
Concat(seqs) == IF seqs = <<>> THEN <<>> ELSE Head(seqs) \o Concat(Tail(seqs))

(* ------------------------------------------------------------------ *)
(* Bit flag helpers                                                    *)
(* ------------------------------------------------------------------ *)

Pow2(i) == IF i = 0 THEN 1 ELSE IF i = 1 THEN 2 ELSE IF i = 2 THEN 4
           ELSE IF i = 3 THEN 8 ELSE IF i = 4 THEN 16 ELSE IF i = 5 THEN 32
           ELSE IF i = 6 THEN 64 ELSE 128

\* test_bit(data, offset): data & (1 << offset), read as a truth value
test_bit(data, offset) == (data \div Pow2(offset)) % 2 = 1

\* set_bit(data, offset): data | (1 << offset)
set_bit(data, offset) == IF test_bit(data, offset) THEN data ELSE data + Pow2(offset)

(* ------------------------------------------------------------------ *)
(* Fixed-width primitives (_Primitive1)                                *)
(* ------------------------------------------------------------------ *)

\* Primitives.Int32.pack: two's complement, 4 bytes little-endian
Int32_pack(v) == IF v < 0 THEN Invert(PackLE(-v - 1, 4)) ELSE PackLE(v, 4)

Int32_unpack(data, pos) ==
    IF ~CanRead(data, pos, 4) THEN Raise(pos)
    ELSE LET b == ReadBytes(data, pos, 4)
         IN Ok(IntV(IF b[4] >= 128 THEN -UnpackLE(Invert(b)) - 1 ELSE UnpackLE(b)), pos + 4)

UInt32_pack(v) == PackLE(v, 4)

UInt32_unpack(data, pos) ==
    IF ~CanRead(data, pos, 4) THEN Raise(pos)
    ELSE Ok(IntV(UnpackLE(ReadBytes(data, pos, 4))), pos + 4)

UInt16_pack(v) == PackLE(v, 2)

UInt16_unpack(data, pos) ==
    IF ~CanRead(data, pos, 2) THEN Raise(pos)
    ELSE Ok(IntV(UnpackLE(ReadBytes(data, pos, 2))), pos + 2)

UInt8_pack(v) == PackLE(v, 1)

UInt8_unpack(data, pos) ==
    IF ~CanRead(data, pos, 1) THEN Raise(pos)
    ELSE Ok(IntV(data[pos + 1]), pos + 1)

(* ------------------------------------------------------------------ *)
(* String and ByteString (_String, _Bytes)                             *)
(* ------------------------------------------------------------------ *)

\* str.encode('utf-8') of one code point
Utf8Char(c) ==
    IF c < 128 THEN <<c>>
    ELSE IF c < 2048 THEN <<192 + (c \div 64), 128 + (c % 64)>>
    ELSE <<224 + (c \div 4096), 128 + ((c \div 64) % 64), 128 + (c % 64)>>

RECURSIVE Utf8Encode(_)
Utf8Encode(s) == IF s = <<>> THEN <<>> ELSE Utf8Char(Head(s)) \o Utf8Encode(Tail(s))

IsCont(b) == b >= 128 /\ b < 192

\* bytes.decode('utf-8'): the code points, or <<-1>> when it raises
RECURSIVE Utf8Decode(_)
Utf8Decode(b) ==
    IF b = <<>> THEN <<>>
    ELSE LET h == Head(b)
             n == IF h < 128 THEN 1 ELSE IF h >= 194 /\ h < 224 THEN 2
                  ELSE IF h >= 224 /\ h < 240 THEN 3 ELSE 0
         IN IF n = 0 \/ Len(b) < n THEN <<-1>>
            ELSE IF \E i \in 2..n : ~IsCont(b[i]) THEN <<-1>>
            ELSE LET c == IF n = 1 THEN h
                          ELSE IF n = 2 THEN (h - 192) * 64 + (b[2] - 128)
                          ELSE (h - 224) * 4096 + (b[2] - 128) * 64 + (b[3] - 128)
                     rest == Utf8Decode(SubSeq(b, n + 1, Len(b)))
                 IN IF (n = 3 /\ c < 2048) \/ rest = <<-1>> THEN <<-1>>
                    ELSE <<c>> \o rest

\* _String.pack (also _Bytes.pack, which delegates to it)
String_pack(string) ==
    IF string = None THEN Int32_pack(-1)
    ELSE LET raw == IF string.t = "str" THEN Utf8Encode(string.s) ELSE string.s
         IN Int32_pack(Len(raw)) \o raw

Bytes_pack(data) == String_pack(data)

\* _Bytes.unpack, once the length l is read
BytesOfLength(l, data) ==
    IF l.err THEN l
    ELSE IF l.val.v = -1 THEN Ok(None, l.pos)
    ELSE IF ~CanRead(data, l.pos, l.val.v) THEN Raise(l.pos)
    ELSE Ok(BytesV(ReadBytes(data, l.pos, l.val.v)), l.pos + l.val.v)

\* _Bytes.unpack
Bytes_unpack(data, pos) == BytesOfLength(Int32_unpack(data, pos), data)

\* b.decode("utf-8") of the code points s decoded from blob b
DecodedText(b, s) == IF s = <<-1>> THEN Raise(b.pos) ELSE Ok(StrV(s), b.pos)

\* _String.unpack (Python 3 branch), once the blob b is read
StringOfBytes(b) ==
    IF b.err THEN b
    ELSE IF b.val = None THEN b
    ELSE DecodedText(b, Utf8Decode(b.val.s))

\* _String.unpack
String_unpack(data, pos) == StringOfBytes(Bytes_unpack(data, pos))

(* ------------------------------------------------------------------ *)
(* Guid (_Guid)                                                        *)
(* ------------------------------------------------------------------ *)

\* uuid.UUID(bytes=b): the six host fields of a 16-byte big-endian UUID
UUID(b) ==
    [t |-> "guid",
     time_low |-> UnpackBE(SubSeq(b, 1, 4)),
     time_mid |-> UnpackBE(SubSeq(b, 5, 6)),
     time_hi_version |-> UnpackBE(SubSeq(b, 7, 8)),
     clock_seq_hi_variant |-> b[9],
     clock_seq_low |-> b[10],
     node |-> UnpackBE(SubSeq(b, 11, 16))]

\* _Guid.pack: f1 + f2 + f3 + f4a + f4b + f4c
Guid_pack(guid) ==
    UInt32_pack(guid.time_low) \o UInt16_pack(guid.time_mid)
      \o UInt16_pack(guid.time_hi_version) \o UInt8_pack(guid.clock_seq_hi_variant)
      \o UInt8_pack(guid.clock_seq_low) \o PackBE(guid.node, 6)

\* _Guid.unpack: f1, f2, f3 re-packed big-endian, f4 as read
Guid_unpack(data, pos) ==
    IF ~CanRead(data, pos, 16) THEN Raise(pos)
    ELSE Ok(UUID(PackBE(UnpackLE(ReadBytes(data, pos, 4)), 4)
                   \o PackBE(UnpackLE(ReadBytes(data, pos + 4, 2)), 2)
                   \o PackBE(UnpackLE(ReadBytes(data, pos + 6, 2)), 2)
                   \o ReadBytes(data, pos + 8, 8)),
            pos + 16)

(* ------------------------------------------------------------------ *)
(* Message header (header_to_binary, header_from_string)               *)
(* ------------------------------------------------------------------ *)

\* ua.MessageType wire codes: "HEL", "ACK", "ERR", "OPN", "CLO", "MSG"
Hello == <<72, 69, 76>>
Acknowledge == <<65, 67, 75>>
ErrorMsg == <<69, 82, 82>>
SecureOpen == <<79, 80, 78>>
SecureClose == <<67, 76, 79>>
SecureMessage == <<77, 83, 71>>

\* ua.Header(): the header object before any field is decoded into it
NewHeader ==
    [t |-> "Header", MessageType |-> <<>>, ChunkType |-> <<>>,
     ChannelId |-> 0, body_size |-> 0, packet_size |-> 0]

\* hdr.MessageType in (SecureOpen, SecureClose, SecureMessage)
IsSecure(mt) == mt \in {SecureOpen, SecureClose, SecureMessage}

\* a header size that forgets the 4 bytes of ChannelId
HeaderSizeWithoutChannel(hdr) == hdr.body_size + 8

\* size = hdr.body_size + 8, and 4 more for a secure kind
HeaderSize(hdr) ==
    IF IsSecure(hdr.MessageType) THEN hdr.body_size + 8 + 4 ELSE hdr.body_size + 8

header_to_binary(hdr) ==
    IF IsSecure(hdr.MessageType)
    THEN hdr.MessageType \o hdr.ChunkType \o UInt32_pack(HeaderSize(hdr))
           \o UInt32_pack(hdr.ChannelId)
    ELSE hdr.MessageType \o hdr.ChunkType \o UInt32_pack(HeaderSize(hdr))

\* the secure branch of header_from_string, once ChannelId ch is read
WithChannelId(hdr, ch) ==
    IF ch.err THEN Raise(ch.pos)
    ELSE Ok([hdr EXCEPT !.body_size = hdr.body_size - 4, !.ChannelId = ch.val.v], ch.pos)

\* header_from_string after struct.unpack("<3scI", data.read(8))
HeaderOf(mt, ct, ps, data, pos) ==
    IF IsSecure(mt)
    THEN WithChannelId([NewHeader EXCEPT !.MessageType = mt, !.ChunkType = ct,
                                         !.packet_size = ps, !.body_size = ps - 8],
                       UInt32_unpack(data, pos + 8))
    ELSE Ok([NewHeader EXCEPT !.MessageType = mt, !.ChunkType = ct,
                              !.packet_size = ps, !.body_size = ps - 8], pos + 8)

header_from_string(data, pos) ==
    IF ~CanRead(data, pos, 8) THEN Raise(pos)
    ELSE HeaderOf(ReadBytes(data, pos, 3), ReadBytes(data, pos + 3, 1),
                  UnpackLE(ReadBytes(data, pos + 4, 4)), data, pos)

(* ------------------------------------------------------------------ *)
(* NodeId (nodeid_to_binary, nodeid_from_binary)                       *)
(* ------------------------------------------------------------------ *)

\* ua.NodeIdType ordinals
TwoByte == 0
FourByte == 1
Numeric == 2
String == 3
Guid == 4
ByteString == 5

NodeIdTypes == {TwoByte, FourByte, Numeric, String, Guid, ByteString}

\* ua.NodeId(): the zero NodeId
NewNodeId ==
    [t |-> "NodeId", NodeIdType |-> TwoByte, NamespaceIndex |-> 0,
     Identifier |-> IntV(0), NamespaceUri |-> StrV(<<>>), ServerIndex |-> 0]

nodeid_to_binary(nodeid) ==
    IF nodeid.NodeIdType = TwoByte
    THEN UInt8_pack(nodeid.NodeIdType) \o UInt8_pack(nodeid.Identifier.v)
    ELSE IF nodeid.NodeIdType = FourByte
    THEN UInt8_pack(nodeid.NodeIdType) \o UInt8_pack(nodeid.NamespaceIndex)
         \o UInt16_pack(nodeid.Identifier.v)
    ELSE IF nodeid.NodeIdType = Numeric
    THEN UInt8_pack(nodeid.NodeIdType) \o UInt16_pack(nodeid.NamespaceIndex)
         \o UInt32_pack(nodeid.Identifier.v)
    ELSE IF nodeid.NodeIdType = String
    THEN UInt8_pack(nodeid.NodeIdType) \o UInt16_pack(nodeid.NamespaceIndex)
         \o String_pack(nodeid.Identifier)
    ELSE IF nodeid.NodeIdType = ByteString
    THEN UInt8_pack(nodeid.NodeIdType) \o UInt16_pack(nodeid.NamespaceIndex)
         \o Bytes_pack(nodeid.Identifier)
    ELSE UInt8_pack(nodeid.NodeIdType) \o UInt16_pack(nodeid.NamespaceIndex)
         \o Guid_pack(nodeid.Identifier)

\* a decoder that reads the identifier and does not store it
WithIdentifierDropped(nid, id) == IF id.err THEN Raise(id.pos) ELSE Ok(nid, id.pos)

\* nid with the identifier id just read, or the error of reading it
WithIdentifier(nid, id) ==
    IF id.err THEN Raise(id.pos) ELSE Ok([nid EXCEPT !.Identifier = id.val], id.pos)

\* the String / ByteString / Guid branches: NamespaceIndex ns, then the identifier
LongNodeId(ty, ns, data) ==
    IF ns.err THEN ns
    ELSE WithIdentifier([NewNodeId EXCEPT !.NodeIdType = ty, !.NamespaceIndex = ns.val.v],
                        IF ty = String THEN String_unpack(data, ns.pos)
                        ELSE IF ty = ByteString THEN Bytes_unpack(data, ns.pos)
                        ELSE Guid_unpack(data, ns.pos))

\* the identifier part of nodeid_from_binary, after the leading byte
NodeIdCore(ty, data, pos) ==
    IF ty = TwoByte
    THEN WithIdentifier([NewNodeId EXCEPT !.NodeIdType = ty], UInt8_unpack(data, pos))
    ELSE IF ty = FourByte
    THEN IF ~CanRead(data, pos, 3) THEN Raise(pos)
         ELSE Ok([NewNodeId EXCEPT !.NodeIdType = ty,
                     !.NamespaceIndex = data[pos + 1],
                     !.Identifier = IntV(UnpackLE(ReadBytes(data, pos + 1, 2)))],
                 pos + 3)
    ELSE IF ty = Numeric
    THEN IF ~CanRead(data, pos, 6) THEN Raise(pos)
         ELSE Ok([NewNodeId EXCEPT !.NodeIdType = ty,
                     !.NamespaceIndex = UnpackLE(ReadBytes(data, pos, 2)),
                     !.Identifier = IntV(UnpackLE(ReadBytes(data, pos + 2, 4)))],
                 pos + 6)
    ELSE LongNodeId(ty, UInt16_unpack(data, pos), data)

\* if test_bit(encoding, 6): nid.ServerIndex = Primitives.UInt32.unpack(data)
WithServerIndex(nid, srv) ==
    IF srv.err THEN Raise(srv.pos)
    ELSE Ok([nid.val EXCEPT !.ServerIndex = srv.val.v], srv.pos)

ServerIndexPart(encoding, nid, data) ==
    IF nid.err THEN nid
    ELSE IF test_bit(encoding, 6) THEN WithServerIndex(nid, UInt32_unpack(data, nid.pos))
    ELSE nid

\* if test_bit(encoding, 7): nid.NamespaceUri = Primitives.String.unpack(data)
WithNamespaceUri(nid, uri) ==
    IF uri.err THEN Raise(uri.pos)
    ELSE Ok([nid.val EXCEPT !.NamespaceUri = uri.val], uri.pos)

NamespaceUriPart(encoding, nid, data) ==
    IF nid.err THEN nid
    ELSE IF test_bit(encoding, 7) THEN WithNamespaceUri(nid, String_unpack(data, nid.pos))
    ELSE nid

\* nodeid_from_binary after the leading byte e: ua.NodeIdType(encoding & 0b00111111)
\* raises for a value that is no discriminant
NodeIdOfEncoding(e, data) ==
    IF e.err THEN e
    ELSE IF (e.val.v % 64) \notin NodeIdTypes THEN Raise(e.pos)
    ELSE ServerIndexPart(e.val.v,
           NamespaceUriPart(e.val.v, NodeIdCore(e.val.v % 64, data, e.pos), data), data)

nodeid_from_binary(data, pos) == NodeIdOfEncoding(UInt8_unpack(data, pos), data)

(* ------------------------------------------------------------------ *)
(* Primitive codec set, by name (class Primitives)                     *)
(* ------------------------------------------------------------------ *)

BoolV(b) == [t |-> "bool", b |-> b]

\* the attribute names of class Primitives that the model exercises
PrimitiveNames == {"Null", "Boolean", "Byte", "UInt16", "Int32", "UInt32",
                   "String", "ByteString", "Guid"}

\* hasattr(Primitives, name)
IsPrimitive(name) == name \in PrimitiveNames

\* getattr(Primitives, name).pack(value)
PrimPack(name, value) ==
    CASE name = "Null" -> <<>>
      [] name = "Boolean" -> <<IF value.b THEN 1 ELSE 0>>
      [] name = "Byte" -> UInt8_pack(value.v)
      [] name = "UInt16" -> UInt16_pack(value.v)
      [] name = "Int32" -> Int32_pack(value.v)
      [] name = "UInt32" -> UInt32_pack(value.v)
      [] name = "String" -> String_pack(value)
      [] name = "ByteString" -> Bytes_pack(value)
      [] name = "Guid" -> Guid_pack(value)

\* struct.unpack("<?", ...) of the byte r
BoolOfByte(r) == IF r.err THEN r ELSE Ok(BoolV(r.val.v # 0), r.pos)

\* getattr(Primitives, name).unpack(data)
PrimUnpack(name, data, pos) ==
    CASE name = "Null" -> Ok(None, pos)
      [] name = "Boolean" -> BoolOfByte(UInt8_unpack(data, pos))
      [] name = "Byte" -> UInt8_unpack(data, pos)
      [] name = "UInt16" -> UInt16_unpack(data, pos)
      [] name = "Int32" -> Int32_unpack(data, pos)
      [] name = "UInt32" -> UInt32_unpack(data, pos)
      [] name = "String" -> String_unpack(data, pos)
      [] name = "ByteString" -> Bytes_unpack(data, pos)
      [] name = "Guid" -> Guid_unpack(data, pos)

\* _Primitive.pack_array
pack_array(name, array) ==
    IF array = None THEN <<255, 255, 255, 255>>
    ELSE Concat(<<Int32_pack(Len(array.l))>>
                  \o [i \in 1..Len(array.l) |-> PrimPack(name, array.l[i])])

\* a list comprehension that reads elements left to right: the element h
\* put before the elements r read after it
Cons(h, r) == IF r.err THEN r ELSE Ok(ListV(<<h.val>> \o r.val.l), r.pos)

\* [self.unpack(data) for _ in range(n)]
RECURSIVE PrimUnpackN(_, _, _, _)
PrimUnpackRest(name, data, h, n) ==
    IF h.err THEN h ELSE Cons(h, PrimUnpackN(name, data, h.pos, n))

PrimUnpackN(name, data, pos, n) ==
    IF n <= 0 THEN Ok(ListV(<<>>), pos)
    ELSE PrimUnpackRest(name, data, PrimUnpack(name, data, pos), n - 1)

\* an array decoder that takes length -1 for an empty array
ArrayOfLengthAbsentAsEmpty(name, l, data) ==
    IF l.err THEN l
    ELSE IF l.val.v <= 0 THEN Ok(ListV(<<>>), l.pos)
    ELSE PrimUnpackN(name, data, l.pos, l.val.v)

\* _Primitive.unpack_array, once the length l is read
ArrayOfLength(name, l, data) ==
    IF l.err THEN l
    ELSE IF l.val.v = -1 THEN Ok(None, l.pos)
    ELSE IF l.val.v = 0 THEN Ok(ListV(<<>>), l.pos)
    ELSE PrimUnpackN(name, data, l.pos, l.val.v)

\* _Primitive.unpack_array
unpack_array(name, data, pos) == ArrayOfLength(name, Int32_unpack(data, pos), data)

(* ------------------------------------------------------------------ *)
(* Variant reshape (reshape) and ua.flatten                            *)
(* ------------------------------------------------------------------ *)

\* for i in subdims: subsize *= (1 if i == 0 else i)
RECURSIVE SubSize(_)
SubSize(subdims) ==
    IF subdims = <<>> THEN 1
    ELSE (IF Head(subdims) = 0 THEN 1 ELSE Head(subdims)) * SubSize(Tail(subdims))

\* a reshape that does not pad a short list
PaddedNever(flat, n) == flat

\* while dims[0] * subsize > len(flat): flat.append([])
Padded(flat, n) ==
    IF n > Len(flat) THEN flat \o [i \in 1..(n - Len(flat)) |-> ListV(<<>>)] ELSE flat

\* flat[i : i + subsize], i counted from 0
Slice(flat, i, subsize) ==
    SubSeq(flat, i + 1, IF i + subsize > Len(flat) THEN Len(flat) ELSE i + subsize)

\* range(0, len(flat), subsize) has this many members
Strides(flat, subsize) == (Len(flat) + subsize - 1) \div subsize

\* reshape after the padding loop, on the padded flat
RECURSIVE reshape(_, _)
Reshaped(flat, subdims, subsize) ==
    IF subdims = <<>> \/ subdims = <<0>> THEN ListV(flat)
    ELSE ListV([k \in 1..Strides(flat, subsize) |->
                  reshape(Slice(flat, (k - 1) * subsize, subsize), subdims)])

\* reshape(flat, dims), dims a non-empty sequence of extents >= 0
reshape(flat, dims) ==
    Reshaped(Padded(flat, dims[1] * SubSize(Tail(dims))), Tail(dims), SubSize(Tail(dims)))

\* ua.flatten: the leaves of a nested list, in order
RECURSIVE flatten(_)
flatten(mylist) ==
    IF mylist = None THEN None
    ELSE IF mylist.l = <<>> THEN mylist
    ELSE IF mylist.l[1].t = "list"
    THEN flatten(ListV(Concat([i \in 1..Len(mylist.l) |-> mylist.l[i].l])))
    ELSE mylist

(* ------------------------------------------------------------------ *)
(* The data model the codec works on                                   *)
(* ------------------------------------------------------------------ *)

\* a wire-type tag is a string; "ListOf" + T is the token sequence <<"ListOf">> \o T
TagV(tokens) == [t |-> "tag", n |-> tokens]
NoTag == [t |-> "tag", n |-> <<>>]
ClassV(name) == [t |-> "class", c |-> name]
BufV(data, pos) == [t |-> "Buffer", data |-> data, pos |-> pos]

\* ua.VariantType: names of the built-in ordinals 0..25
BuiltinNames ==
    <<"Null", "Boolean", "SByte", "Byte", "Int16", "UInt16", "Int32", "UInt32",
      "Int64", "UInt64", "Float", "Double", "String", "DateTime", "Guid",
      "ByteString", "XmlElement", "NodeId", "ExpandedNodeId", "StatusCode",
      "QualifiedName", "LocalizedText", "ExtensionObject", "DataValue",
      "Variant", "DiagnosticInfo">>

\* ua.datatype_to_varianttype(int_type)
datatype_to_varianttype(i) ==
    [name |-> IF i < Len(BuiltinNames) THEN BuiltinNames[i + 1] ELSE "VariantTypeCustom",
     value |-> i]

VT_Int32 == [name |-> "Int32", value |-> 6]
VT_String == [name |-> "String", value |-> 12]
VT_ExtensionObject == [name |-> "ExtensionObject", value |-> 22]
VT_Custom == [name |-> "VariantTypeCustom", value |-> 26]

\* ua.Variant(value, vtype, dimensions, is_array=array)
Variant(value, vtype, dimensions, array) ==
    [t |-> "Variant", VariantType |-> vtype, Value |-> value,
     is_array |-> array, Dimensions |-> dimensions]

\* ua.ExtensionObject(): the generic carrier before its fields are set
NewExtensionObject ==
    [t |-> "ExtensionObject", TypeId |-> NewNodeId, Encoding |-> 0, Body |-> None]

\* application record classes: OptRec has two switch-guarded optional fields
\* and a list field, Empty declares no field at all
ua_types(cls) ==
    IF cls = "OptRec"
    THEN << <<"Mask", <<"Byte">> >>, <<"Value", <<"Int32">> >>,
            <<"Text", <<"String">> >>, <<"Items", <<"ListOf", "Int32">> >> >>
    ELSE <<>>

\* hasattr(obj, "ua_switches")
has_ua_switches(cls) == cls = "OptRec"

\* obj.ua_switches: optional field -> (container field, bit index)
ua_switches(cls) ==
    IF cls = "OptRec"
    THEN [n \in {"Value", "Text"} |-> IF n = "Value" THEN <<"Mask", 2>> ELSE <<"Mask", 0>>]
    ELSE [n \in {} |-> <<"Mask", 0>>]

Classes == {"OptRec", "Empty"}

\* klass(): a zero-valued record of the class
NewStruct(cls) ==
    [t |-> "struct", cls |-> cls,
     f |-> IF cls = "OptRec"
           THEN [Mask |-> IntV(0), Value |-> None, Text |-> None, Items |-> ListV(<<>>)]
           ELSE [n \in {} |-> None]]

\* ua.extension_object_ids[obj.__class__.__name__]
extension_object_ids(cls) ==
    [NewNodeId EXCEPT !.NodeIdType = FourByte,
                      !.Identifier = IntV(IF cls = "OptRec" THEN 300 ELSE 301)]

\* NodeId.__eq__: same namespace and identifier
SameNode(a, b) == a.NamespaceIndex = b.NamespaceIndex /\ a.Identifier = b.Identifier

\* typeid in ua.extension_object_classes
IsRegistered(typeid) == \E c \in Classes : SameNode(extension_object_ids(c), typeid)

\* ua.extension_object_classes[typeid]
extension_object_classes(typeid) ==
    CHOOSE c \in Classes : SameNode(extension_object_ids(c), typeid)

\* result of an encoder: the bytes and the argument as the call leaves it
E(b, o) == [err |-> FALSE, b |-> b, o |-> o]
EncRaise(o) == [err |-> TRUE, b |-> <<>>, o |-> o]

(* ------------------------------------------------------------------ *)
(* Encoders                                                            *)
(* ------------------------------------------------------------------ *)

RECURSIVE to_binary(_, _)
RECURSIVE struct_to_binary(_)
RECURSIVE list_to_binary(_, _)
RECURSIVE extensionobject_to_binary(_)
RECURSIVE pack_uatype(_, _)
RECURSIVE pack_uatype_array(_, _)
RECURSIVE variant_to_binary(_)

\* ExtensionObject.to_binary of a generic carrier: its own fields, as they are
ExtensionObject_to_binary(obj) ==
    nodeid_to_binary(obj.TypeId) \o UInt8_pack(obj.Encoding)
      \o (IF obj.Body # None THEN Bytes_pack(obj.Body) ELSE <<>>)

\* b"".join of a length prefix and the packed elements rs of a list; the
\* elements are left as their encoders leave them
JoinResults(head, rs, orig) ==
    IF \E i \in 1..Len(rs) : rs[i].err THEN EncRaise(orig)
    ELSE E(Concat(<<head>> \o [i \in 1..Len(rs) |-> rs[i].b]),
           ListV([i \in 1..Len(rs) |-> rs[i].o]))

pack_uatype(vtype, value) ==
    IF IsPrimitive(vtype.name) THEN E(PrimPack(vtype.name, value), value)
    ELSE IF vtype.value > 25 THEN E(Bytes_pack(value), value)
    ELSE IF vtype.name = "ExtensionObject" THEN extensionobject_to_binary(value)
    ELSE EncRaise(value)  \* a value with no to_binary method: UaError

pack_uatype_array(vtype, array) ==
    IF array = None THEN E(<<255, 255, 255, 255>>, array)
    ELSE JoinResults(Int32_pack(Len(array.l)),
                     [i \in 1..Len(array.l) |-> pack_uatype(vtype, array.l[i])], array)

\* b"".join(b) of variant_to_binary: the tag byte, the value part, the
\* Dimensions part (empty when there is none); var as the call leaves it
VariantPacket(encoding, vals, dims, var) ==
    IF vals.err \/ dims.err THEN EncRaise(var)
    ELSE E(UInt8_pack(encoding) \o vals.b \o dims.b, var)

\* the tag byte of an array: bit 7, and bit 6 when Dimensions is not None
ArrayEncoding(var) ==
    IF var.Dimensions # None
    THEN set_bit(set_bit(var.VariantType.value % 64, 7), 6)
    ELSE set_bit(var.VariantType.value % 64, 7)

\* the array branch of variant_to_binary; var.is_array is already set
VariantArray(var) ==
    VariantPacket(ArrayEncoding(var),
                  pack_uatype_array(var.VariantType, flatten(var.Value)),
                  IF var.Dimensions # None
                  THEN pack_uatype_array(VT_Int32, var.Dimensions)
                  ELSE E(<<>>, None),
                  var)

variant_to_binary(var) ==
    IF var.is_array \/ var.Value.t = "list"
    THEN VariantArray([var EXCEPT !.is_array = TRUE])
    ELSE VariantPacket(var.VariantType.value % 64,
                       pack_uatype(var.VariantType, var.Value), E(<<>>, None), var)

\* a switch loop that consumes the member whose bit it sets
SetSwitchConsuming(obj, name, switch) ==
    IF obj.f[name] # None
    THEN [obj EXCEPT !.f[switch[1]] = IntV(set_bit(obj.f[switch[1]].v, switch[2])),
                     !.f[name] = None]
    ELSE obj

\* one turn of the first loop of struct_to_binary: a member that is not None
\* sets its switch's bit in the container field
SetSwitch(obj, name, switch) ==
    IF obj.f[name] # None
    THEN [obj EXCEPT !.f[switch[1]] = IntV(set_bit(obj.f[switch[1]].v, switch[2]))]
    ELSE obj

\* the first loop of struct_to_binary, over the switches not yet visited
RECURSIVE SetSwitches(_, _)
SetSwitchesFrom(obj, name, names) ==
    SetSwitches(SetSwitch(obj, name, ua_switches(obj.cls)[name]), names \ {name})

SetSwitches(obj, names) ==
    IF names = {} THEN obj
    ELSE SetSwitchesFrom(obj, CHOOSE n \in names : TRUE, names)

\* one turn of the second loop of struct_to_binary: the packet of field
\* (name, uatype) whose value is val
PackField(obj, name, uatype, val) ==
    IF Head(uatype) = "ListOf" THEN list_to_binary(val, TagV(Tail(uatype)))
    ELSE IF has_ua_switches(obj.cls) /\ val = None
            /\ name \in DOMAIN ua_switches(obj.cls)
    THEN E(<<>>, val)
    ELSE to_binary(val, TagV(uatype))

\* the second loop of struct_to_binary, from field i on; acc holds the packet
\* so far and the record
RECURSIVE PackFields(_, _)
AppendField(acc, name, r, i) ==
    IF r.err THEN EncRaise(acc.o)
    ELSE PackFields(E(acc.b \o r.b, [acc.o EXCEPT !.f[name] = r.o]), i)

PackFieldAt(acc, field, i) ==
    AppendField(acc, field[1], PackField(acc.o, field[1], field[2], acc.o.f[field[1]]), i)

PackFields(acc, i) ==
    IF i > Len(ua_types(acc.o.cls)) THEN acc
    ELSE PackFieldAt(acc, ua_types(acc.o.cls)[i], i + 1)

struct_to_binary(obj) ==
    IF has_ua_switches(obj.cls)
    THEN PackFields(E(<<>>, SetSwitches(obj, DOMAIN ua_switches(obj.cls))), 1)
    ELSE PackFields(E(<<>>, obj), 1)

to_binary(val, uatype) ==
    IF Len(uatype.n) = 1 /\ IsPrimitive(uatype.n[1])
    THEN E(PrimPack(uatype.n[1], val), val)
    ELSE IF val.t = "enum" THEN E(UInt32_pack(val.v), val)
    ELSE IF val.t = "NodeId" THEN E(nodeid_to_binary(val), val)
    ELSE IF val.t = "Header" THEN E(header_to_binary(val), val)
    ELSE IF val.t = "Variant" THEN variant_to_binary(val)
    ELSE IF val.t = "struct" THEN struct_to_binary(val)
    ELSE IF uatype = TagV(<<"ExtensionObject">>) THEN extensionobject_to_binary(val)
    ELSE EncRaise(val)

list_to_binary(val, uatype) ==
    IF val = None THEN E(Int32_pack(-1), val)
    ELSE JoinResults(Int32_pack(Len(val.l)),
                     [i \in 1..Len(val.l) |-> to_binary(val.l[i], uatype)], val)

\* the packet of extensionobject_to_binary: TypeId, Encoding, and Body when
\* "if Body:" finds it true, that is, not None and not empty
ExtensionObjectPacket(TypeId, Encoding, Body) ==
    IF Body.err THEN EncRaise(Body.o)
    ELSE E(nodeid_to_binary(TypeId) \o UInt8_pack(Encoding)
             \o (IF Body.b # <<>> THEN Bytes_pack(BytesV(Body.b)) ELSE <<>>),
           Body.o)

extensionobject_to_binary(obj) ==
    IF obj.t = "ExtensionObject" THEN E(ExtensionObject_to_binary(obj), obj)
    ELSE IF obj = None THEN ExtensionObjectPacket(NewNodeId, 0, E(<<>>, None))
    ELSE ExtensionObjectPacket(extension_object_ids(obj.cls), 1, to_binary(obj, NoTag))

(* ------------------------------------------------------------------ *)
(* Decoders                                                            *)
(* ------------------------------------------------------------------ *)

RECURSIVE from_binary(_, _)
RECURSIVE struct_from_binary(_, _)
RECURSIVE extensionobject_from_binary(_, _)
RECURSIVE unpack_uatype(_, _, _)

\* klass.from_binary(body) of a registered class: the generic record decode
klass_from_binary(cls, body) == struct_from_binary(ClassV(cls), BufV(body, 0))

\* the value a decoder returns through a caller whose cursor ends at pos
Returned(r, pos) == IF r.err THEN Raise(pos) ELSE Ok(r.val, pos)

\* a decoder that tests the registry before the zero identifier, and takes a
\* registered type without body for no value
ExtensionObjectOfRegistryFirst(typeid, Encoding, body, pos) ==
    IF IsRegistered(typeid)
    THEN IF body = None THEN Ok(None, pos)
         ELSE Returned(klass_from_binary(extension_object_classes(typeid), body.s), pos)
    ELSE IF typeid.Identifier = IntV(0) THEN Ok(None, pos)
    ELSE Ok([NewExtensionObject EXCEPT !.TypeId = typeid, !.Encoding = Encoding,
                                       !.Body = IF body # None THEN body ELSE @], pos)

\* the three outcomes of extensionobject_from_binary, once TypeId, Encoding
\* and body (None when no body follows) are read and the cursor is at pos
ExtensionObjectOf(typeid, Encoding, body, pos) ==
    IF typeid.Identifier = IntV(0) THEN Ok(None, pos)
    ELSE IF IsRegistered(typeid)
    THEN IF body = None THEN Raise(pos)
         ELSE Returned(klass_from_binary(extension_object_classes(typeid), body.s), pos)
    ELSE Ok([NewExtensionObject EXCEPT !.TypeId = typeid, !.Encoding = Encoding,
                                       !.Body = IF body # None THEN body ELSE @], pos)

\* if Encoding & (1 << 0): the body of length `length` is copied and skipped
BodyPart(typeid, Encoding, length, data) ==
    IF length.err THEN length
    ELSE IF length.val.v < 1
    THEN ExtensionObjectOf(typeid, Encoding, BytesV(<<>>), length.pos)
    ELSE IF ~CanRead(data, length.pos, length.val.v) THEN Raise(length.pos)
    ELSE ExtensionObjectOf(typeid, Encoding,
                           BytesV(ReadBytes(data, length.pos, length.val.v)),
                           length.pos + length.val.v)

\* extensionobject_from_binary after Encoding = ord(data.read(1))
AfterEncoding(typeid, Encoding, data) ==
    IF Encoding.err THEN Encoding
    ELSE IF test_bit(Encoding.val.v, 0)
    THEN BodyPart(typeid, Encoding.val.v, Int32_unpack(data, Encoding.pos), data)
    ELSE ExtensionObjectOf(typeid, Encoding.val.v, None, Encoding.pos)

\* extensionobject_from_binary after typeid = nodeid_from_binary(data)
AfterTypeId(typeid, data) ==
    IF typeid.err THEN typeid
    ELSE AfterEncoding(typeid.val, UInt8_unpack(data, typeid.pos), data)

extensionobject_from_binary(data, pos) == AfterTypeId(nodeid_from_binary(data, pos), data)

unpack_uatype(vtype, data, pos) ==
    IF IsPrimitive(vtype.name) THEN PrimUnpack(vtype.name, data, pos)
    ELSE IF vtype.value > 25 THEN Bytes_unpack(data, pos)
    ELSE IF vtype.name = "ExtensionObject" THEN extensionobject_from_binary(data, pos)
    ELSE Raise(pos)  \* no class of that name: UaError

\* [unpack_uatype(vtype, data) for _ in range(n)]
RECURSIVE UnpackN(_, _, _, _)
UnpackRest(vtype, data, h, n) ==
    IF h.err THEN h ELSE Cons(h, UnpackN(vtype, data, h.pos, n))

UnpackN(vtype, data, pos, n) ==
    IF n <= 0 THEN Ok(ListV(<<>>), pos)
    ELSE UnpackRest(vtype, data, unpack_uatype(vtype, data, pos), n - 1)

\* the general branch of unpack_uatype_array, once the length is read
UaArrayOfLength(vtype, length, data) ==
    IF length.err THEN length
    ELSE IF length.val.v = -1 THEN Ok(None, length.pos)
    ELSE UnpackN(vtype, data, length.pos, length.val.v)

unpack_uatype_array(vtype, data, pos) ==
    IF IsPrimitive(vtype.name) THEN unpack_array(vtype.name, data, pos)
    ELSE UaArrayOfLength(vtype, Int32_unpack(data, pos), data)

\* the extents held by a decoded Dimensions list
Extents(dimensions) == [i \in 1..Len(dimensions.l) |-> dimensions.l[i].v]

\* value = reshape(value, dimensions), then ua.Variant(...): the call raises
\* when dimensions is None or empty, or when value is None or a number
VariantReshaped(value, vtype, dimensions, array) ==
    IF dimensions.err THEN dimensions
    ELSE IF dimensions.val = None \/ value.t # "list" THEN Raise(dimensions.pos)
    ELSE IF dimensions.val.l = <<>> THEN Raise(dimensions.pos)
    ELSE Ok(Variant(reshape(value.l, Extents(dimensions.val)), vtype,
                    dimensions.val, array), dimensions.pos)

\* variant_from_binary once the value is read
VariantOfValue(encoding, vtype, value, data) ==
    IF value.err THEN value
    ELSE IF test_bit(encoding, 6)
    THEN VariantReshaped(value.val, vtype, unpack_uatype_array(VT_Int32, data, value.pos),
                         test_bit(encoding, 7))
    ELSE Ok(Variant(value.val, vtype, None, test_bit(encoding, 7)), value.pos)

\* variant_from_binary after the tag byte, vtype looked up from its low 6 bits
VariantOfType(encoding, vtype, data, pos) ==
    VariantOfValue(encoding, vtype,
                   IF test_bit(encoding, 7) THEN unpack_uatype_array(vtype, data, pos)
                   ELSE unpack_uatype(vtype, data, pos),
                   data)

VariantOfEncoding(e, data) ==
    IF e.err THEN e
    ELSE VariantOfType(e.val.v, datatype_to_varianttype(e.val.v % 64), data, e.pos)

variant_from_binary(data, pos) == VariantOfEncoding(UInt8_unpack(data, pos), data)

\* the loop of from_binary's "ListOf" branch: n more elements to read.  The
\* recursive call is written from_binary(data, uatype[6:]): the cursor is passed
\* as the type tag and the element tag as the cursor
RECURSIVE ListElements(_, _, _)
ListRest(uatype, data, h, n) ==
    IF h.err THEN Raise(data.pos)
    ELSE Cons(h, ListElements(uatype, BufV(data.data, h.pos), n))

ListElements(uatype, data, n) ==
    IF n <= 0 THEN Ok(ListV(<<>>), data.pos)
    ELSE ListRest(uatype, data, from_binary(data, TagV(Tail(uatype.n))), n - 1)

\* from_binary's "ListOf" branch once size is read
ListOfSize(uatype, size, data) ==
    IF size.err THEN size
    ELSE ListElements(uatype, BufV(data.data, size.pos), size.val.v)

\* the switch test of struct_from_binary: the member is skipped when the bit
\* of its container field, as decoded so far, is not set
Skipped(obj, name) ==
    /\ has_ua_switches(obj.cls)
    /\ name \in DOMAIN ua_switches(obj.cls)
    /\ ~test_bit(obj.f[ua_switches(obj.cls)[name][1]].v, ua_switches(obj.cls)[name][2])

\* the field loop of struct_from_binary, from field i on
RECURSIVE UnpackFields(_, _, _, _)
StoreField(obj, name, val, data, i) ==
    IF val.err THEN Raise(val.pos)
    ELSE UnpackFields([obj EXCEPT !.f[name] = val.val], data, val.pos, i)

UnpackFieldAt(obj, field, data, pos, i) ==
    IF Skipped(obj, field[1]) THEN UnpackFields(obj, data, pos, i)
    ELSE StoreField(obj, field[1], from_binary(TagV(field[2]), BufV(data, pos)), data, i)

UnpackFields(obj, data, pos, i) ==
    IF i > Len(ua_types(obj.cls)) THEN Ok(obj, pos)
    ELSE UnpackFieldAt(obj, ua_types(obj.cls)[i], data, pos, i + 1)

struct_from_binary(objtype, data) ==
    IF objtype.t = "tag" /\ ~(Len(objtype.n) = 1 /\ objtype.n[1] \in Classes)
    THEN Raise(0)              \* getattr(ua, objtype) finds no such class
    ELSE IF objtype.t \notin {"tag", "class"}
    THEN Raise(0)              \* objtype() of something that is no record class
    ELSE IF data.t # "Buffer"
    THEN Raise(0)              \* the first read from something that is no cursor
    ELSE UnpackFields(NewStruct(IF objtype.t = "tag" THEN objtype.n[1] ELSE objtype.c),
                      data.data, data.pos, 1)

from_binary(uatype, data) ==
    IF uatype.t = "tag" /\ uatype.n # <<>> /\ Head(uatype.n) = "ListOf"
    THEN ListOfSize(uatype, Int32_unpack(data.data, data.pos), data)
    ELSE IF uatype.t = "tag" /\ Len(uatype.n) = 1 /\ IsPrimitive(uatype.n[1])
    THEN PrimUnpack(uatype.n[1], data.data, data.pos)
    ELSE IF uatype \in {ClassV("NodeId"), TagV(<<"NodeId">>)}
    THEN nodeid_from_binary(data.data, data.pos)
    ELSE IF uatype \in {ClassV("Variant"), TagV(<<"Variant">>)}
    THEN variant_from_binary(data.data, data.pos)
    ELSE struct_from_binary(uatype, data)

(* ------------------------------------------------------------------ *)
(* Inputs                                                              *)
(* ------------------------------------------------------------------ *)

\* <<IntV(1), ..., IntV(k)>>
Iota(k) == [i \in 1..k |-> IntV(i)]

\* sequences over S of length n, and of length lo..hi
RECURSIVE SeqsOfLen(_, _)
SeqsOfLen(S, n) ==
    IF n = 0 THEN {<<>>}
    ELSE {<<x>> \o r : x \in S, r \in SeqsOfLen(S, n - 1)}

SeqsBetween(S, lo, hi) == UNION {SeqsOfLen(S, n) : n \in lo..hi}

Texts == {StrV(<<>>), StrV(<<65>>), StrV(<<233, 8364>>)}
Blobs == {BytesV(<<>>), BytesV(<<1, 2>>), BytesV(<<255>>)}

Headers ==
    {[NewHeader EXCEPT !.MessageType = mt, !.ChunkType = ct,
                       !.body_size = bs, !.ChannelId = ch] :
       mt \in {Hello, Acknowledge, ErrorMsg, SecureOpen, SecureClose, SecureMessage},
       ct \in {<<70>>, <<67>>},
       bs \in {0, 10, 248, 65530, 2147483635},
       ch \in {0, 42, 2147483647}}

AGuid ==
    [t |-> "guid", time_low |-> 305419896, time_mid |-> 4660,
     time_hi_version |-> 17185, clock_seq_hi_variant |-> 128,
     clock_seq_low |-> 7, node |-> 16909060]

NodeId(ty, ns, id) ==
    [NewNodeId EXCEPT !.NodeIdType = ty, !.NamespaceIndex = ns, !.Identifier = id]

NodeIds ==
    {NodeId(TwoByte, 0, IntV(i)) : i \in {0, 5, 255}}
    \cup {NodeId(FourByte, ns, IntV(i)) : ns \in {0, 1, 255}, i \in {0, 300, 65535}}
    \cup {NodeId(Numeric, ns, IntV(i)) : ns \in {0, 1, 65535}, i \in {0, 70000, 2147483647}}
    \cup {NodeId(String, ns, i) : ns \in {0, 2}, i \in Texts \cup {None}}
    \cup {NodeId(ByteString, ns, i) : ns \in {0, 2}, i \in Blobs \cup {None}}
    \cup {NodeId(Guid, ns, AGuid) : ns \in {0, 2}}

\* the nested list of shape dims over the leaves flat, row-major
RECURSIVE Product(_)
Product(dims) == IF dims = <<>> THEN 1 ELSE Head(dims) * Product(Tail(dims))

RECURSIVE Nested(_, _)
Nested(flat, dims) ==
    IF Len(dims) = 1 THEN ListV(flat)
    ELSE ListV([k \in 1..dims[1] |->
                  Nested(SubSeq(flat, (k - 1) * Product(Tail(dims)) + 1,
                                k * Product(Tail(dims))), Tail(dims))])

DimsV(dims) == ListV([i \in 1..Len(dims) |-> IntV(dims[i])])

Shapes == SeqsBetween(0..MaxExtent, 2, MaxRank)

Variants ==
    {Variant(IntV(v), VT_Int32, None, FALSE) : v \in {7, -1, 0}}
    \cup {Variant(v, VT_String, None, FALSE) : v \in Texts \cup {None}}
    \cup {Variant(v, VT_Custom, None, FALSE) : v \in Blobs}
    \cup {Variant(None, VT_Int32, None, TRUE)}
    \cup {Variant(ListV(<<StrV(<<65>>), None>>), VT_String, None, a) : a \in BOOLEAN}
    \cup {Variant(ListV(Iota(k)), VT_Int32, None, a) : k \in 0..MaxLen, a \in BOOLEAN}
    \cup {Variant(ListV(Iota(k)), VT_Int32, DimsV(<<k>>), a) :
            k \in 0..MaxLen, a \in BOOLEAN}
    \cup {Variant(Nested(Iota(Product(d)), d), VT_Int32, DimsV(d), a) :
            d \in Shapes, a \in BOOLEAN}

OptRec(mask, value, text, items) ==
    [NewStruct("OptRec") EXCEPT !.f = [Mask |-> IntV(mask), Value |-> value,
                                       Text |-> text, Items |-> items]]

ItemLists == {None} \cup {ListV(Iota(k)) : k \in 0..MaxLen}

Structs ==
    {OptRec(m, v, x, l) : m \in {0, 1, 2, 4, 5}, v \in {None, IntV(7)},
                          x \in {None, StrV(<<>>), StrV(<<65>>)}, l \in ItemLists}
    \cup {NewStruct("Empty")}

Carriers ==
    {[NewExtensionObject EXCEPT !.TypeId = n, !.Encoding = e, !.Body = b] :
       n \in {NodeId(FourByte, 1, IntV(999)), NodeId(String, 2, StrV(<<65>>))},
       e \in {0, 1}, b \in Blobs \cup {None}}

ListArgs ==
    {[t |-> "ListArg", val |-> v, uatype |-> <<"Int32">>] : v \in ItemLists}
    \cup {[t |-> "ListArg", val |-> ListV(<<StrV(<<65>>), None>>), uatype |-> <<"String">>]}

PrimArgs ==
    {[t |-> "PrimArg", name |-> "String", val |-> v] : v \in Texts \cup {None}}
    \cup {[t |-> "PrimArg", name |-> "ByteString", val |-> v] : v \in Blobs \cup {None}}

ArrayArgs ==
    {[t |-> "ArrayArg", name |-> "Int32", val |-> v] : v \in ItemLists}
    \cup {[t |-> "ArrayArg", name |-> "String", val |-> v] :
            v \in {None, ListV(<<>>), ListV(<<None>>), ListV(<<StrV(<<>>), StrV(<<65>>)>>)}}

UaArrayArgs ==
    {[t |-> "UaArrayArg", vtype |-> VT_Int32, val |-> v] : v \in ItemLists}
    \cup {[t |-> "UaArrayArg", vtype |-> VT_Custom, val |-> v] :
            v \in {None, ListV(<<>>), ListV(<<BytesV(<<>>)>>), ListV(<<None, BytesV(<<1, 2>>)>>)}}
    \cup {[t |-> "UaArrayArg", vtype |-> VT_ExtensionObject, val |-> v] :
            v \in {None, ListV(<<>>), ListV(<<None>>)}}

ReshapeArgs ==
    {[t |-> "ReshapeArgs", flat |-> Iota(k), dims |-> d] :
       k \in 0..MaxFlat, d \in SeqsBetween(0..MaxExtent, 1, MaxRank)}

Inputs ==
    Headers \cup NodeIds \cup Variants \cup Structs \cup Carriers \cup {None}
      \cup ListArgs \cup PrimArgs \cup ArrayArgs \cup UaArrayArgs \cup ReshapeArgs

\* bytes received from a peer, not produced by this codec's encoders
WireFor(k) == [t |-> "Wire", for |-> k]

NodeIdWires ==
    {<<6>>, <<6, 0, 0, 1>>, <<63, 1>>, <<70, 0>>, <<7>>, <<1, 1>>, <<>>,
     <<64, 5, 9, 0, 0, 0>>,
     <<131, 2, 0>> \o String_pack(StrV(<<65>>)) \o String_pack(StrV(<<66>>)),
     <<192, 5>> \o String_pack(None) \o UInt32_pack(3)}

ExtensionObjectWires ==
    {nodeid_to_binary(n) \o <<e>> \o b \o x :
       n \in {NodeId(TwoByte, 0, IntV(0)), NodeId(FourByte, 0, IntV(300)),
              NodeId(FourByte, 0, IntV(301)), NodeId(FourByte, 1, IntV(999)),
              NodeId(FourByte, 1, IntV(0)), NodeId(String, 2, StrV(<<65>>))},
       e \in {0, 1, 2, 3},
       b \in {<<>>, Int32_pack(-1), Int32_pack(0), Int32_pack(2) \o <<1, 2>>,
              Int32_pack(-5), Int32_pack(5) \o <<1>>,
              Bytes_pack(BytesV(<<4, 7, 0, 0, 0, 0, 0, 0, 0>>))},
       x \in {<<>>, <<9>>}}

ListWires ==
    {Int32_pack(-1), Int32_pack(0) \o <<9>>,
     Int32_pack(1) \o Int32_pack(7),
     Int32_pack(2) \o Int32_pack(7) \o Int32_pack(-1) \o <<9>>}

NoOut == [err |-> FALSE, val |-> None, pos |-> 0]
EncOut(r) == [err |-> r.err, val |-> None, pos |-> 0]

(* ------------------------------------------------------------------ *)
(* The state machine: one call of the codec per step                   *)
(*                                                                     *)
(*   op    the last call made ("new": a value was built by the caller, *)
(*         "recv": bytes arrived from a peer)                          *)
(*   pre   the argument of the last encoder call, as it was before it  *)
(*   arg   the caller's object, as the last call left it               *)
(*   wire  the bytes in flight                                         *)
(*   out   what the last decoder call returned, and its cursor         *)
(* ------------------------------------------------------------------ *)

Init ==
    /\ pre = None
    /\ out = NoOut
    /\ \/ op = "new" /\ arg \in Inputs /\ wire = <<>>
       \/ op = "recv" /\ arg = WireFor("NodeId") /\ wire \in NodeIdWires
       \/ op = "recv" /\ arg = WireFor("ExtensionObject") /\ wire \in ExtensionObjectWires
       \/ op = "recv" /\ arg = WireFor("ListOfInt32") /\ wire \in ListWires

\* an encoder call on the current argument: r is its result
Encoded(name, r) ==
    /\ op' = name
    /\ pre' = arg
    /\ arg' = r.o
    /\ wire' = r.b
    /\ out' = EncOut(r)

\* an encoder call on the member val of the current argument
EncodedMember(name, r) ==
    /\ op' = name
    /\ pre' = arg
    /\ arg' = [arg EXCEPT !.val = r.o]
    /\ wire' = r.b
    /\ out' = EncOut(r)

\* a decoder call on the bytes in flight: r is its result
Decoded(name, r) ==
    /\ op' = name
    /\ out' = r
    /\ UNCHANGED <<pre, arg, wire>>

\* the bytes in flight come from encoder enc, or were received for decoder k
InFlight(enc, k) == (op = enc /\ ~out.err) \/ (op = "recv" /\ arg = WireFor(k))

HeaderToBinary ==
    /\ arg.t = "Header"
    /\ Encoded("header_to_binary", E(header_to_binary(arg), arg))

HeaderFromString ==
    /\ InFlight("header_to_binary", "Header")
    /\ Decoded("header_from_string", header_from_string(wire, 0))

NodeIdToBinary ==
    /\ arg.t = "NodeId"
    /\ Encoded("nodeid_to_binary", E(nodeid_to_binary(arg), arg))

NodeIdFromBinary ==
    /\ InFlight("nodeid_to_binary", "NodeId")
    /\ Decoded("nodeid_from_binary", nodeid_from_binary(wire, 0))

VariantToBinary ==
    /\ arg.t = "Variant"
    /\ Encoded("variant_to_binary", variant_to_binary(arg))

VariantFromBinary ==
    /\ InFlight("variant_to_binary", "Variant")
    /\ Decoded("variant_from_binary", variant_from_binary(wire, 0))

\* the caller assigns an optional member of a record between two encodes
SetMember ==
    /\ arg.t = "struct" /\ arg.cls = "OptRec"
    /\ op = "struct_to_binary"
    /\ \E v \in {None, IntV(7)} :
         /\ v # arg.f.Value
         /\ arg' = [arg EXCEPT !.f.Value = v]
    /\ op' = "new"
    /\ pre' = None
    /\ wire' = <<>>
    /\ out' = NoOut

StructToBinary ==
    /\ arg.t = "struct"
    /\ Encoded("struct_to_binary", struct_to_binary(arg))

StructFromBinary ==
    /\ InFlight("struct_to_binary", "struct")
    /\ Decoded("struct_from_binary", struct_from_binary(ClassV(arg.cls), BufV(wire, 0)))

ListToBinary ==
    /\ arg.t = "ListArg"
    /\ EncodedMember("list_to_binary", list_to_binary(arg.val, TagV(arg.uatype)))

FromBinaryList ==
    \/ /\ op = "list_to_binary" /\ ~out.err
       /\ Decoded("from_binary", from_binary(TagV(<<"ListOf">> \o arg.uatype), BufV(wire, 0)))
    \/ /\ op = "recv" /\ arg = WireFor("ListOfInt32")
       /\ Decoded("from_binary", from_binary(TagV(<<"ListOf", "Int32">>), BufV(wire, 0)))

ExtensionObjectToBinary ==
    /\ arg.t \in {"None", "struct", "ExtensionObject"}
    /\ Encoded("extensionobject_to_binary", extensionobject_to_binary(arg))

ExtensionObjectFromBinary ==
    /\ InFlight("extensionobject_to_binary", "ExtensionObject")
    /\ Decoded("extensionobject_from_binary", extensionobject_from_binary(wire, 0))

PrimitivePack ==
    /\ arg.t = "PrimArg"
    /\ Encoded("pack", E(PrimPack(arg.name, arg.val), arg))

PrimitiveUnpack ==
    /\ op = "pack"
    /\ Decoded("unpack", PrimUnpack(arg.name, wire, 0))

PackArray ==
    /\ arg.t = "ArrayArg"
    /\ Encoded("pack_array", E(pack_array(arg.name, arg.val), arg))

UnpackArray ==
    /\ op = "pack_array"
    /\ Decoded("unpack_array", unpack_array(arg.name, wire, 0))

PackUatypeArray ==
    /\ arg.t = "UaArrayArg"
    /\ EncodedMember("pack_uatype_array", pack_uatype_array(arg.vtype, arg.val))

UnpackUatypeArray ==
    /\ op = "pack_uatype_array"
    /\ Decoded("unpack_uatype_array", unpack_uatype_array(arg.vtype, wire, 0))

\* reshape pads the caller's list in place before it slices it
Reshape ==
    /\ arg.t = "ReshapeArgs"
    /\ op = "new"
    /\ op' = "reshape"
    /\ pre' = arg
    /\ arg' = [arg EXCEPT !.flat = Padded(arg.flat, arg.dims[1] * SubSize(Tail(arg.dims)))]
    /\ out' = Ok(reshape(arg.flat, arg.dims), 0)
    /\ UNCHANGED wire

Next ==
    \/ HeaderToBinary \/ HeaderFromString
    \/ NodeIdToBinary \/ NodeIdFromBinary
    \/ VariantToBinary \/ VariantFromBinary
    \/ SetMember \/ StructToBinary \/ StructFromBinary
    \/ ListToBinary \/ FromBinaryList
    \/ ExtensionObjectToBinary \/ ExtensionObjectFromBinary
    \/ PrimitivePack \/ PrimitiveUnpack
    \/ PackArray \/ UnpackArray
    \/ PackUatypeArray \/ UnpackUatypeArray
    \/ Reshape

Spec == Init /\ [][Next]_vars

(* ------------------------------------------------------------------ *)
(* Properties                                                          *)
(* ------------------------------------------------------------------ *)

\* C3: header_to_binary emits 8 bytes with size field body_size + 8 for a
\* non-secure kind, and 12 bytes with size field body_size + 12 followed by
\* ChannelId for a secure kind; header_from_string on those bytes returns the
\* same body_size, MessageType and ChunkType (and ChannelId for a secure
\* kind) and consumes exactly the emitted bytes.
HeaderRoundTrip ==
    /\ op = "header_to_binary" =>
         /\ SubSeq(wire, 1, 3) = pre.MessageType
         /\ SubSeq(wire, 4, 4) = pre.ChunkType
         /\ ~IsSecure(pre.MessageType) =>
              /\ Len(wire) = 8
              /\ UnpackLE(SubSeq(wire, 5, 8)) = pre.body_size + 8
         /\ IsSecure(pre.MessageType) =>
              /\ Len(wire) = 12
              /\ UnpackLE(SubSeq(wire, 5, 8)) = pre.body_size + 12
              /\ UnpackLE(SubSeq(wire, 9, 12)) = pre.ChannelId
    /\ op = "header_from_string" =>
         /\ ~out.err
         /\ out.val.body_size = pre.body_size
         /\ out.val.MessageType = pre.MessageType
         /\ out.val.ChunkType = pre.ChunkType
         /\ IsSecure(pre.MessageType) => out.val.ChannelId = pre.ChannelId
         /\ out.pos = Len(wire)

\* a SecureMessage header with ChannelId 42 and a 10-byte body has come back
HeaderRoundTripWitness ==
    /\ op = "header_from_string"
    /\ pre.MessageType = SecureMessage
    /\ pre.ChannelId = 42
    /\ pre.body_size = 10
    /\ out.val.body_size = 10
    /\ Len(wire) = 12

\* C4: nodeid_from_binary(nodeid_to_binary(n)) returns the NodeIdType,
\* NamespaceIndex and Identifier of n and leaves the cursor at the end of the
\* encoded bytes; a leading byte whose low 6 bits are no discriminant ends in
\* an error, and no NodeId is returned.
NodeIdRoundTrip ==
    op = "nodeid_from_binary" =>
      /\ pre # None =>
           /\ ~out.err
           /\ out.val.NodeIdType = pre.NodeIdType
           /\ out.val.NamespaceIndex = pre.NamespaceIndex
           /\ out.val.Identifier = pre.Identifier
           /\ out.pos = Len(wire)
      /\ (pre = None /\ wire # <<>> /\ (wire[1] % 64) \notin NodeIdTypes) =>
           /\ out.err
           /\ out.val = None

\* the FourByte NodeId ns=1, i=300 has come back from 01 01 2c 01
NodeIdRoundTripWitness ==
    /\ op = "nodeid_from_binary"
    /\ pre # None
    /\ pre.NodeIdType = FourByte
    /\ pre.Identifier = IntV(300)
    /\ wire = <<1, 1, 44, 1>>
    /\ out.val.Identifier = IntV(300)

\* the empty values of the length-prefixed kinds
EmptyValues == {StrV(<<>>), BytesV(<<>>), ListV(<<>>)}

\* C8: for String, ByteString, pack_array/unpack_array and
\* pack_uatype_array/unpack_uatype_array, an absent value encodes to the
\* 4-byte length -1 and decodes back to absent, an empty value encodes to the
\* 4-byte length 0 and decodes back to a present, empty value.
AbsentIsNotEmpty ==
    /\ op \in {"pack", "pack_array", "pack_uatype_array"} =>
         /\ pre.val = None => wire = <<255, 255, 255, 255>>
         /\ pre.val \in EmptyValues => wire = <<0, 0, 0, 0>>
    /\ op \in {"unpack", "unpack_array", "unpack_uatype_array"} =>
         /\ wire = <<255, 255, 255, 255>> => (~out.err /\ out.val = None)
         /\ wire = <<0, 0, 0, 0>> => (~out.err /\ out.val \in EmptyValues)
         /\ pre.val = None => (~out.err /\ out.val = None)
         /\ pre.val \in EmptyValues => (~out.err /\ out.val = pre.val)

\* an absent array of a non-primitive type has come back absent
AbsentIsNotEmptyWitness ==
    /\ op = "unpack_uatype_array"
    /\ pre.vtype = VT_Custom
    /\ pre.val = None
    /\ wire = <<255, 255, 255, 255>>
    /\ out.val = None

\* what the bytes in flight hold, read as an ExtensionObject
TypeIdRead == nodeid_from_binary(wire, 0)
HasEncoding == ~TypeIdRead.err /\ TypeIdRead.pos < Len(wire)
EncodingRead == wire[TypeIdRead.pos + 1]
BodyFollows == EncodingRead % 2 = 1
LengthRead == Int32_unpack(wire, TypeIdRead.pos + 1)
BodyLength == IF LengthRead.val.v < 1 THEN 0 ELSE LengthRead.val.v
BodyRead == SubSeq(wire, LengthRead.pos + 1, LengthRead.pos + BodyLength)
BodyEnd == IF BodyFollows THEN LengthRead.pos + BodyLength ELSE TypeIdRead.pos + 1

\* a TypeId, an Encoding byte and, when bit 0 is set, a whole body are there
WholeExtensionObject ==
    /\ HasEncoding
    /\ BodyFollows => (~LengthRead.err /\ LengthRead.pos + BodyLength <= Len(wire))

\* C10: extensionobject_from_binary returns the no-value sentinel when
\* TypeId's Identifier is 0, whatever the body; else, for a registered TypeId,
\* the registered type's decoding of Body, or an error when no body follows;
\* else a generic carrier with the TypeId, Encoding and raw Body bytes read.
\* When it returns, the cursor is just after the body, or after the Encoding
\* byte when no body follows.
ExtensionObjectOutcome ==
    (op = "extensionobject_from_binary" /\ WholeExtensionObject) =>
      /\ TypeIdRead.val.Identifier = IntV(0) => out = Ok(None, BodyEnd)
      /\ (TypeIdRead.val.Identifier # IntV(0) /\ IsRegistered(TypeIdRead.val)) =>
           /\ ~BodyFollows => out.err
           /\ BodyFollows =>
                /\ out.err =
                     klass_from_binary(extension_object_classes(TypeIdRead.val), BodyRead).err
                /\ out.val =
                     klass_from_binary(extension_object_classes(TypeIdRead.val), BodyRead).val
      /\ (TypeIdRead.val.Identifier # IntV(0) /\ ~IsRegistered(TypeIdRead.val)) =>
           /\ ~out.err
           /\ out.val.t = "ExtensionObject"
           /\ out.val.TypeId = TypeIdRead.val
           /\ out.val.Encoding = EncodingRead
           /\ BodyFollows => out.val.Body = BytesV(BodyRead)
      /\ ~out.err => out.pos = BodyEnd

\* a registered TypeId whose 9-byte body decoded to a record, one byte left
ExtensionObjectOutcomeWitness ==
    /\ op = "extensionobject_from_binary"
    /\ WholeExtensionObject
    /\ IsRegistered(TypeIdRead.val)
    /\ BodyFollows
    /\ ~out.err
    /\ out.val.t = "struct"
    /\ out.val.cls = "OptRec"
    /\ out.val.f.Value = IntV(7)
    /\ out.pos = Len(wire) - 1

\* C1: after struct_to_binary(r), for each switch-guarded field f with switch
\* (c, i), bit i of r.c, the value emitted on the wire, is set if and only if
\* r.f is not absent.  (The container of the records here is their first field,
\* one byte wide, so the emitted value is the first byte.)
SwitchBitsTrackPresence ==
    (op = "struct_to_binary" /\ has_ua_switches(arg.cls)) =>
      /\ ~out.err
      /\ wire[1] = arg.f.Mask.v
      /\ \A name \in DOMAIN ua_switches(arg.cls) :
           test_bit(arg.f[ua_switches(arg.cls)[name][1]].v, ua_switches(arg.cls)[name][2])
             <=> arg.f[name] # None

\* C2: extensionobject_to_binary of an absent value gives the zero NodeId, the
\* Encoding byte 0x00 and no body; of a registered record its TypeId, the
\* Encoding byte 0x01 and a 4-byte length-prefixed Body equal to
\* to_binary(record), whatever the length of that encoding.
BodyFollowsEncodingBit ==
    (op = "extensionobject_to_binary" /\ pre.t # "ExtensionObject") =>
      /\ ~out.err
      /\ pre = None => wire = nodeid_to_binary(NewNodeId) \o <<0>>
      /\ pre.t = "struct" =>
           wire = nodeid_to_binary(extension_object_ids(pre.cls)) \o <<1>>
                    \o Int32_pack(Len(struct_to_binary(pre).b))
                    \o struct_to_binary(pre).b

\* the Variants the round trip is stated for: a list Value is flagged as an
\* array, and Dimensions, when present, is the shape of the Value
IsArrayVariant(v) == v.is_array /\ (v.Value.t = "list" \/ v.Value = None)
IsScalarVariant(v) == ~v.is_array /\ v.Value.t # "list" /\ v.Dimensions = None

\* C5: for a Variant that is a scalar, a flat array, or a nested array whose
\* shape equals its Dimensions, the tag byte has bit 7 set exactly for an
\* array and bit 6 exactly for an array with Dimensions, and
\* variant_from_binary(variant_to_binary(v)) has the VariantType, Value,
\* is_array and Dimensions of v.
VariantRoundTrip ==
    /\ (op = "variant_to_binary" /\ (IsArrayVariant(pre) \/ IsScalarVariant(pre))) =>
         /\ ~out.err
         /\ test_bit(wire[1], 7) <=> IsArrayVariant(pre)
         /\ test_bit(wire[1], 6) <=> (IsArrayVariant(pre) /\ pre.Dimensions # None)
    /\ (op = "variant_from_binary" /\ (IsArrayVariant(pre) \/ IsScalarVariant(pre))) =>
         /\ ~out.err
         /\ out.val.VariantType = pre.VariantType
         /\ out.val.Value = pre.Value
         /\ out.val.is_array = pre.is_array
         /\ out.val.Dimensions = pre.Dimensions

\* the n Int32 elements that follow a 4-byte count on the wire
Int32sAfterCount(n) == [i \in 1..n |-> Int32_unpack(wire, 4 * i).val]

\* C7: from_binary("ListOf" + T) on a count n >= 0 followed by n elements of T
\* returns those n elements in wire order and leaves the cursor after the last
\* one; from_binary("ListOf" + T, list_to_binary(seq, T)) returns seq for
\* every seq that is not absent.
ListRoundTrip ==
    op = "from_binary" =>
      /\ (pre # None /\ pre.val # None) =>
           /\ ~out.err
           /\ out.val = pre.val
           /\ out.pos = Len(wire)
      /\ (pre = None /\ Int32_unpack(wire, 0).val.v >= 0) =>
           /\ ~out.err
           /\ out.val = ListV(Int32sAfterCount(Int32_unpack(wire, 0).val.v))
           /\ out.pos = 4 + 4 * Int32_unpack(wire, 0).val.v

\* the slice size of dims: the product of the extents after the first, a zero
\* extent counted as 1
RowSize(dims) == Product([i \in 1..(Len(dims) - 1) |-> IF dims[i + 1] = 0 THEN 1 ELSE dims[i + 1]])

\* flat followed by empty placeholders up to n elements, when it is shorter
RightPadded(flat, n) == flat \o [i \in 1..(n - Len(flat)) |-> ListV(<<>>)]

\* the list reshape slices: flat of the call, padded to d0 * RowSize
PaddedFlat == RightPadded(pre.flat, pre.dims[1] * RowSize(pre.dims))

\* the k-th contiguous slice of RowSize elements of PaddedFlat, the last one
\* possibly shorter
RowOf(k) ==
    SubSeq(PaddedFlat, (k - 1) * RowSize(pre.dims) + 1,
           IF k * RowSize(pre.dims) > Len(PaddedFlat) THEN Len(PaddedFlat)
           ELSE k * RowSize(pre.dims))

\* reshape returns its padded list as it is: a single extent, or a tail of [0]
ReturnsFlat == Len(pre.dims) = 1 \/ Tail(pre.dims) = <<0>>

\* C6 as stated: reshape(flat, dims) returns exactly d0 elements, each the
\* recursive reshape of a contiguous slice of d1*...*dn elements of flat (a
\* zero extent counted as 1), flat right-padded with empty placeholders when
\* it is shorter than the product of the extents.
ReshapeGivesD0Rows ==
    op = "reshape" =>
      /\ Len(out.val.l) = pre.dims[1]
      /\ Len(pre.dims) > 1 =>
           \A k \in 1..pre.dims[1] : out.val.l[k] = reshape(RowOf(k), Tail(pre.dims))

\* C6, amended: with s the slice size and P the padded list, reshape returns P
\* itself when dims has a single extent or its tail is [0], and otherwise
\* ceil(len(P) / s) elements, the k-th being the reshape of the k-th slice of P;
\* that is exactly d0 elements whenever len(flat) <= d0 * s, and more when flat
\* is longer.  [1..6] with [2, 3] gives [[1,2,3],[4,5,6]], with [3, 2] gives
\* [[1,2],[3,4],[5,6]].
ReshapeRows ==
    op = "reshape" =>
      /\ ~out.err
      /\ ReturnsFlat => out.val = ListV(PaddedFlat)
      /\ ~ReturnsFlat =>
           /\ Len(out.val.l) =
                (Len(PaddedFlat) + RowSize(pre.dims) - 1) \div RowSize(pre.dims)
           /\ \A k \in 1..Len(out.val.l) :
                out.val.l[k] = reshape(RowOf(k), Tail(pre.dims))
      /\ Len(pre.flat) <= pre.dims[1] * RowSize(pre.dims) =>
           Len(out.val.l) = pre.dims[1]
      /\ Len(pre.flat) > pre.dims[1] * RowSize(pre.dims) =>
           Len(out.val.l) > pre.dims[1]
      /\ (pre.flat = Iota(6) /\ pre.dims = <<2, 3>>) =>
           out.val = ListV(<<ListV(<<IntV(1), IntV(2), IntV(3)>>),
                             ListV(<<IntV(4), IntV(5), IntV(6)>>)>>)
      /\ (pre.flat = Iota(6) /\ pre.dims = <<3, 2>>) =>
           out.val = ListV(<<ListV(<<IntV(1), IntV(2)>>), ListV(<<IntV(3), IntV(4)>>),
                             ListV(<<IntV(5), IntV(6)>>)>>)

\* five elements with [2, 3]: two rows, the second closed by a placeholder
ReshapeRowsWitness ==
    /\ op = "reshape"
    /\ pre.flat = Iota(5)
    /\ pre.dims = <<2, 3>>
    /\ out.val = ListV(<<ListV(<<IntV(1), IntV(2), IntV(3)>>),
                         ListV(<<IntV(4), IntV(5), ListV(<<>>)>>)>>)

\* the encoders claimed to leave their argument as it is
PureEncoders ==
    {"header_to_binary", "nodeid_to_binary", "variant_to_binary", "list_to_binary",
     "pack", "pack_array", "pack_uatype_array"}

\* the container (bitmask) fields named by the switches of class cls
Containers(cls) == {ua_switches(cls)[n][1] : n \in DOMAIN ua_switches(cls)}

\* struct_to_binary has changed nothing but container fields
OnlyContainersChanged ==
    /\ arg.t = pre.t
    /\ arg.cls = pre.cls
    /\ \A n \in DOMAIN pre.f : n \notin Containers(pre.cls) => arg.f[n] = pre.f[n]

====
